---- MODULE Spec2Model ----
(***************************************************************************)
(* Model of move-files.py: move .ts files and rewrite the relative imports *)
(* of every source file under BASE.                                        *)
(*                                                                         *)
(* A string is a sequence of one-character strings, so that the path       *)
(* arithmetic (dirname, join, normpath, relpath), the suffix substitutions,*)
(* the startswith test, the scan of re.sub over a file's text and the      *)
(* newline translation of text-mode files are computed character by        *)
(* character, as the code computes them.  The disk is the map of the files *)
(* to their bytes together with the set of the directories.                *)
(***************************************************************************)
EXTENDS Integers, Sequences, FiniteSets, TLC

(***************************************************************************)
(* Strings                                                                 *)
(***************************************************************************)
EMPTY == << >>

SEP == "/"

DOT == "."

BACKSLASH == "\\"

DOTDOT == <<".", ".">>

CURDIR == <<".">>

TS == <<".", "t", "s">>

JS == <<".", "j", "s">>

DTS == <<".", "d", ".", "t", "s">>

startswith(s, p) == Len(s) >= Len(p) /\ SubSeq(s, 1, Len(p)) = p

endswith(s, p) == Len(s) >= Len(p) /\ SubSeq(s, Len(s) - Len(p) + 1, Len(s)) = p

\* s[i:] of Python, with i counted from 0
drop(s, i) == SubSeq(s, i + 1, Len(s))

\* s[:i] of Python
take(s, i) == SubSeq(s, 1, i)

\* s.rfind(c) + 1: the 1-based index of the last c in s, 0 when there is none
rfind1(s, c) ==
  LET hits == {i \in 1..Len(s) : s[i] = c}
  IN  IF hits = {} THEN 0 ELSE CHOOSE i \in hits : \A j \in hits : j <= i

\* s.rstrip(c)
RECURSIVE rstrip(_, _)
rstrip(s, c) ==
  IF s # EMPTY /\ s[Len(s)] = c THEN rstrip(take(s, Len(s) - 1), c) ELSE s

allchars(s, c) == \A i \in 1..Len(s) : s[i] = c

\* s.split(c)
RECURSIVE split(_, _)
split(s, c) ==
  LET hits == {i \in 1..Len(s) : s[i] = c}
  IN  IF hits = {} THEN <<s>>
      ELSE LET i == CHOOSE k \in hits : \A j \in hits : k <= j
           IN  <<take(s, i - 1)>> \o split(drop(s, i), c)

\* c.join(parts)
RECURSIVE joinwith(_, _)
joinwith(parts, c) ==
  IF parts = EMPTY THEN EMPTY
  ELSE IF Len(parts) = 1 THEN parts[1]
  ELSE parts[1] \o <<c>> \o joinwith(Tail(parts), c)

\* s.replace(a, b) for single characters a and b
replacechar(s, a, b) == [i \in 1..Len(s) |-> IF s[i] = a THEN b ELSE s[i]]

\* The code point of a character of the model's alphabet (the order of sorted()).
ord(c) ==
  CASE c = "\n" -> 10
    [] c = "." -> 46
    [] c = "/" -> 47
    [] c = "\\" -> 92
    [] c = "a" -> 97
    [] c = "b" -> 98
    [] c = "c" -> 99
    [] c = "d" -> 100
    [] c = "e" -> 101
    [] c = "h" -> 104
    [] c = "j" -> 106
    [] c = "r" -> 114
    [] c = "s" -> 115
    [] c = "t" -> 116
    [] c = "x" -> 120
    [] c = "y" -> 121

\* s < t in Python's string order
RECURSIVE strless(_, _)
strless(s, t) ==
  IF t = EMPTY THEN FALSE
  ELSE IF s = EMPTY THEN TRUE
  ELSE IF s[1] = t[1] THEN strless(Tail(s), Tail(t))
  ELSE ord(s[1]) < ord(t[1])

\* sorted(S) for a finite set of strings
RECURSIVE sorted(_)
sorted(S) ==
  IF S = {} THEN EMPTY
  ELSE LET m == CHOOSE x \in S : \A y \in S \ {x} : strless(x, y)
       IN  <<m>> \o sorted(S \ {m})

(***************************************************************************)
(* posixpath                                                               *)
(***************************************************************************)
\* os.path.dirname
dirname(p) ==
  LET i    == rfind1(p, SEP)
      head == take(p, i)
  IN  IF head # EMPTY /\ ~allchars(head, SEP) THEN rstrip(head, SEP) ELSE head

\* os.path.join(a, b)
join(a, b) ==
  IF startswith(b, <<SEP>>) THEN b
  ELSE IF a = EMPTY \/ endswith(a, <<SEP>>) THEN a \o b
  ELSE a \o <<SEP>> \o b

\* The component stack of os.path.normpath
RECURSIVE normcomps(_, _, _)
normcomps(comps, acc, slashes) ==
  IF comps = EMPTY THEN acc
  ELSE LET comp == comps[1]
           rest == Tail(comps)
       IN  IF comp = EMPTY \/ comp = CURDIR THEN normcomps(rest, acc, slashes)
           ELSE IF \/ comp # DOTDOT
                   \/ (slashes = 0 /\ acc = EMPTY)
                   \/ (acc # EMPTY /\ acc[Len(acc)] = DOTDOT)
                THEN normcomps(rest, Append(acc, comp), slashes)
           ELSE IF acc # EMPTY THEN normcomps(rest, take(acc, Len(acc) - 1), slashes)
           ELSE normcomps(rest, acc, slashes)

\* os.path.normpath
normpath(p) ==
  IF p = EMPTY THEN CURDIR
  ELSE LET slashes == IF ~startswith(p, <<SEP>>) THEN 0
                      ELSE IF startswith(p, <<SEP, SEP>>) /\ ~startswith(p, <<SEP, SEP, SEP>>)
                           THEN 2 ELSE 1
           body == joinwith(normcomps(split(p, SEP), EMPTY, slashes), SEP)
           path == [i \in 1..slashes |-> SEP] \o body
       IN  IF path = EMPTY THEN CURDIR ELSE path

\* [x for x in p.split('/') if x]
nonempty(parts) == SelectSeq(parts, LAMBDA x : x # EMPTY)

\* len(os.path.commonprefix([a, b])) for two lists of components
RECURSIVE commonlen(_, _)
commonlen(a, b) ==
  IF a = EMPTY \/ b = EMPTY \/ a[1] # b[1] THEN 0 ELSE 1 + commonlen(Tail(a), Tail(b))

\* os.path.relpath(path, start), both absolute
relpath(path, start) ==
  LET start_list == nonempty(split(normpath(start), SEP))
      path_list  == nonempty(split(normpath(path), SEP))
      i          == commonlen(start_list, path_list)
      rel_list   == [k \in 1..(Len(start_list) - i) |-> DOTDOT] \o drop(path_list, i)
  IN  IF rel_list = EMPTY THEN CURDIR ELSE joinwith(rel_list, SEP)

\* re.sub(r'\.<a>$', '.<b>', s) for three-character suffixes a, b: `$` matches at
\* the end of the string and before a final newline.
resub_suffix(s, a, b) ==
  IF endswith(s, a) THEN take(s, Len(s) - Len(a)) \o b
  ELSE IF endswith(s, a \o <<"\n">>) THEN take(s, Len(s) - Len(a) - 1) \o b \o <<"\n">>
  ELSE s

(***************************************************************************)
(* The functions of move-files.py                                          *)
(***************************************************************************)
\* The fixed root (line 4): an absolute, normalized directory.
BASE == <<"/", "s">>

\* A lookup whose default drops the file name.
new_path_of_no_default(abs_path, moves) ==
  IF normpath(abs_path) \in DOMAIN moves THEN moves[normpath(abs_path)]
  ELSE dirname(normpath(abs_path))

new_path_of(abs_path, moves) ==
  IF normpath(abs_path) \in DOMAIN moves THEN moves[normpath(abs_path)]
  ELSE normpath(abs_path)

resolve_import(from_file, import_path) ==
  LET from_dir == dirname(from_file)
      ts_path  == resub_suffix(import_path, JS, TS)
  IN  normpath(join(from_dir, ts_path))

\* A relative path taken from the file itself instead of from its directory.
make_relative_from_file(from_file, to_file) ==
  LET rel0 == replacechar(relpath(to_file, from_file), BACKSLASH, SEP)
      rel1 == resub_suffix(rel0, TS, JS)
  IN  IF ~startswith(rel1, <<DOT>>) THEN <<DOT, SEP>> \o rel1 ELSE rel1

make_relative(from_file, to_file) ==
  LET from_dir == dirname(from_file)
      rel0     == replacechar(relpath(to_file, from_dir), BACKSLASH, SEP)
      rel1     == resub_suffix(rel0, TS, JS)
  IN  IF ~startswith(rel1, <<DOT>>) THEN <<DOT, SEP>> \o rel1 ELSE rel1

(***************************************************************************)
(* Text files and the import pattern                                       *)
(***************************************************************************)
QUOTE == "\""

LF == <<"\n">>

CR == <<"\r">>

CRLF == <<"\r", "\n">>

\* os.linesep of the platform whose posixpath the run uses
LINESEP == LF

\* The text of a `from "<spec>"` statement.
FROM == <<"f", "r", "o", "m", " ", QUOTE>>

Statement(spec) == FROM \o spec \o <<QUOTE>>

\* s1 + s2 + ... for a list of strings
RECURSIVE concat(_)
concat(parts) == IF parts = EMPTY THEN EMPTY ELSE parts[1] \o concat(Tail(parts))

\* What fh.read() returns for a file opened in text mode with the default
\* newline (lines 39-40): "\r\n" and a lone "\r" are read as "\n".
RECURSIVE universal_newlines(_)
universal_newlines(bytes) ==
  IF bytes = EMPTY THEN EMPTY
  ELSE IF startswith(bytes, CRLF) THEN LF \o universal_newlines(drop(bytes, 2))
  ELSE IF startswith(bytes, CR) THEN LF \o universal_newlines(drop(bytes, 1))
  ELSE <<bytes[1]>> \o universal_newlines(drop(bytes, 1))

\* What fh.write(text) stores for a file opened in text mode with the default
\* newline (lines 63-64): every "\n" is written as os.linesep.
written_bytes(text) ==
  concat([i \in 1..Len(text) |-> IF text[i] = "\n" THEN LINESEP ELSE <<text[i]>>])

\* The index of the first c of s at or after position i, 0 when there is none.
find1(s, c, i) ==
  LET hits == { k \in i..Len(s) : s[k] = c }
  IN  IF hits = {} THEN 0 ELSE CHOOSE k \in hits : \A j \in hits : k <= j

\* Where a match of r'from "(\.\.?/[^"]+\.js)"' that starts at position i ends,
\* 0 when none starts there: `from "`, then `./` or `../`, then at least one
\* character other than the quote, then `.js` and the closing quote.
match_end(s, i) ==
  LET at(k, p) == startswith(drop(s, k - 1), p)
      j    == i + Len(FROM)
      body == IF at(j, <<DOT, SEP>>) THEN j + 2
              ELSE IF at(j, <<DOT, DOT, SEP>>) THEN j + 3
              ELSE 0
      q    == find1(s, QUOTE, body)
  IN  IF /\ at(i, FROM)
         /\ body # 0
         /\ q # 0
         /\ q - 4 >= body
         /\ SubSeq(s, q - 3, q - 1) = JS
      THEN q
      ELSE 0

\* The matches re.sub finds in s from position i on, leftmost first and not
\* overlapping, each as <<start, end>>.
RECURSIVE matches_from(_, _)
matches_from(s, i) ==
  IF i > Len(s) THEN EMPTY
  ELSE LET q == match_end(s, i)
       IN  IF q = 0 THEN matches_from(s, i + 1)
           ELSE << <<i, q>> >> \o matches_from(s, q + 1)

matches(s) == matches_from(s, 1)

\* match.group(1): the specifier between the quotes
group1(s, m) == SubSeq(s, m[1] + Len(FROM), m[2] - 1)

\* s with its k-th match replaced by the k-th replacement, from the k-th on, the
\* text before position i being already copied.
RECURSIVE spliced(_, _, _, _, _)
spliced(s, ms, reps, k, i) ==
  IF k > Len(ms) THEN drop(s, i - 1)
  ELSE SubSeq(s, i, ms[k][1] - 1) \o reps[k] \o spliced(s, ms, reps, k + 1, ms[k][2] + 1)

\* A rewrite that relativizes from the file's old location.
replace_import_from_old(import_path, old, new, moves) ==
  LET target_abs == resolve_import(old, import_path)
      new_target == new_path_of(target_abs, moves)
  IN  make_relative(old, new_target)

\* replace_import (lines 42-47) on the specifier of one matched statement: the
\* new specifier.
replace_import(import_path, old, new, moves) ==
  LET target_abs == resolve_import(old, import_path)
      new_target == new_path_of(target_abs, moves)
  IN  make_relative(new, new_target)

\* match.group(0).replace(import_path, new_rel) (line 47): the specifier starts
\* with a dot and `from "` holds none, so it occurs once in the statement.
replaced_statement(import_path, old, new, moves) ==
  Statement(replace_import(import_path, old, new, moves))

\* re.sub(pattern, replace_import, content) (line 49)
rewrite(content, old, new, moves) ==
  LET ms == matches(content)
  IN  spliced(content, ms,
              [k \in 1..Len(ms) |-> replaced_statement(group1(content, ms[k]), old, new, moves)],
              1, 1)

\* f.endswith('.ts') and not f.endswith('.d.ts') (line 32)
is_source(f) == endswith(f, TS) /\ ~endswith(f, DTS)

\* os.path.basename: the file name os.walk hands to the filter of line 32
basename(p) == drop(p, rfind1(p, SEP))

(***************************************************************************)
(* Bounds and the inputs drawn from them                                   *)
(***************************************************************************)
\* At most this many lines in the whole tree.
MaxImports == 1

\* At most this many entries in the mapping of the command line.
MaxMoves == 3

\* Origins of the command line, relative to BASE.
JsonKeys == { <<"a">> \o TS, <<"b">> \o TS, <<"c">> \o TS }

\* A second spelling of the origin a.ts.
AliasKey == <<".", "/", "a">> \o TS

\* Destinations of the command line, relative to BASE: a subdirectory, the same
\* directory (written with a redundant `./`), a name with the compiled suffix,
\* and the bare name of the subdirectory.
JsonValues ==
  { <<"d", "/", "a">> \o TS, <<".", "/", "b">> \o TS, <<"a">> \o JS, <<"d">> }

FileA == BASE \o <<SEP, "a">> \o TS

FileB == BASE \o <<SEP, "b">> \o TS

FileC == BASE \o <<SEP, "c">> \o TS

\* A declaration file: under BASE, never discovered.
FileT == BASE \o <<SEP, "t">> \o DTS

React == <<"r", "e", "a", "c", "t">>

\* The specifiers a `from "..."` statement of the tree may hold.
Specifiers ==
  { <<".", "/", "a">> \o JS,
    <<".", "/", "c">> \o JS,
    <<".", "/", "d", "/", ".", ".", "/", "a">> \o JS,
    <<".", "/", ".", "h", "/", "a">> \o JS,
    React }

\* The lines of the tree: a statement ended by "\n", and one ended by "\r\n".
Lines ==
  { Statement(s) \o LF : s \in Specifiers } \cup { Statement(React) \o CRLF }

Contents == { concat(ls) : ls \in UNION { [1..n -> Lines] : n \in 0..MaxImports } }

\* The trees the run may start from: a.ts and c.ts, and t.d.ts; there is no b.ts.
Trees ==
  LET nlines(c) == Cardinality({ i \in 1..Len(c) : c[i] = "\n" })
  IN  { t @@ (FileT :> Statement(<<".", "/", "a">> \o JS) \o LF) :
          t \in { u \in [{FileA, FileC} -> Contents] :
                    nlines(u[FileA]) + nlines(u[FileC]) <= MaxImports } }

\* The members of a JSON object in the order of its text, for keys listed in
\* ascending order.
members(m) == LET ks == sorted(DOMAIN m) IN [i \in 1..Len(ks) |-> <<ks[i], m[ks[i]]>>]

\* The arguments of the command line: text json.loads rejects, or a serialized
\* mapping; among them the mappings that name a.ts twice, in either order.
Arguments ==
  { [ok |-> FALSE, json |-> << >>] } \cup
  { [ok |-> TRUE, json |-> members(m)] :
      m \in UNION { [K -> JsonValues] :
                      K \in { X \in SUBSET JsonKeys : Cardinality(X) <= MaxMoves } } } \cup
  { [ok |-> TRUE, json |-> << <<ks[1], vs[1]>>, <<ks[2], vs[2]>> >>] :
      ks \in { k \in { <<<<"a">> \o TS, AliasKey>>, <<AliasKey, <<"a">> \o TS>> } : MaxMoves >= 2 },
      vs \in { v \in JsonValues \X JsonValues : v[1] # v[2] } }

\* The numbers of bytes a write that fails may have stored before it failed.
StoredBeforeFailure == {0, 4}

\* The (from, to) pairs the path functions are exercised on.
ProbePaths ==
  { FileA, FileB,
    BASE \o <<SEP, "d", SEP, "a">> \o TS,
    BASE \o <<SEP, "d", SEP, "e", SEP, "c">> \o TS,
    BASE \o <<SEP, ".", "h", SEP, "a">> \o TS,
    BASE \o <<SEP, ".", "e">> \o TS,
    BASE \o <<SEP, "a">> \o JS,
    BASE \o <<SEP, "d", SEP, "a", ".", "t", "x", "t">>,
    BASE \o <<SEP, "x", BACKSLASH, "y">> \o TS,
    <<SEP, "a">> \o TS }

\* All orders of a finite set: the orders os.walk may list it in.
RECURSIVE orders(_)
orders(S) ==
  IF S = {} THEN { EMPTY }
  ELSE UNION { { <<x>> \o o : o \in orders(S \ {x}) } : x \in S }

(***************************************************************************)
(* State                                                                   *)
(***************************************************************************)
VARIABLES
  argv,       \* sys.argv[1]
  fs,         \* the files on disk: path -> bytes
  dirs,       \* the directories on disk
  fs0,        \* the files on disk when the run started
  moves,      \* run's normalized mapping (lines 24-26)
  all_files,  \* the discovered files, in os.walk's order (lines 29-33)
  updates,    \* old_abs -> (new_abs, new_content), in insertion order (line 36)
  pc,         \* the statement the run is at
  idx,        \* the position of the running loop
  err,        \* the exception that ended the run, "" when none
  trace,      \* the file operations performed, in order
  stdout,     \* the lines printed, in order
  probe       \* the pair the path functions are exercised on, and their results

vars ==
  <<argv, fs, dirs, fs0, moves, all_files, updates, pc, idx, err, trace, stdout, probe>>

None == <<"None">>

NoProbe == [from |-> None, to |-> None, rel |-> None, back |-> None]

\* d and the directories above it
RECURSIVE ancestors_or_self(_)
ancestors_or_self(d) ==
  IF dirname(d) = d \/ d = EMPTY THEN {d} ELSE {d} \cup ancestors_or_self(dirname(d))

\* The directories a tree of files stands in.
dirs_of(disk) == UNION { ancestors_or_self(dirname(p)) : p \in DOMAIN disk }

Init ==
  /\ argv \in Arguments
  /\ fs \in Trees
  /\ dirs = dirs_of(fs)
  /\ fs0 = fs
  /\ moves = << >>
  /\ all_files = << >>
  /\ updates = << >>
  /\ pc = "main"
  /\ idx = 1
  /\ err = ""
  /\ trace = << >>
  /\ stdout = << >>
  /\ probe = NoProbe

(***************************************************************************)
(* The run                                                                 *)
(***************************************************************************)
\* d[k] = v on a dict kept as the list of its items in insertion order: a key
\* that is there keeps its place and takes the new value.
dict_set(d, k, v) ==
  IF \E i \in 1..Len(d) : d[i][1] = k
  THEN [i \in 1..Len(d) |-> IF d[i][1] = k THEN <<k, v>> ELSE d[i]]
  ELSE Append(d, <<k, v>>)

\* The dict built by setting the items of a list in order.
RECURSIVE dict_from(_, _)
dict_from(items, d) ==
  IF items = EMPTY THEN d
  ELSE dict_from(Tail(items), dict_set(d, items[1][1], items[1][2]))

\* json.loads on the members of an object (line 71)
json_loads(json) == dict_from(json, << >>)

\* moves_raw of line 72
moves_raw_of(moves_json) ==
  dict_from([i \in 1..Len(moves_json) |->
               <<join(BASE, moves_json[i][1]), join(BASE, moves_json[i][2])>>], << >>)

\* The normalization of lines 24-26, as the mapping it leaves.
normalize_moves(json) ==
  LET raw   == moves_raw_of(json_loads(json))
      items == dict_from([i \in 1..Len(raw) |->
                            <<normpath(raw[i][1]), normpath(raw[i][2])>>], << >>)
  IN  [old \in { items[i][1] : i \in 1..Len(items) } |->
         items[CHOOSE i \in 1..Len(items) : items[i][1] = old][2]]

\* The files the walk of lines 30-33 collects.
discovered(disk) ==
  { p \in DOMAIN disk : startswith(p, BASE \o <<SEP>>) /\ is_source(basename(p)) }

\* The condition of line 50.
records_update(content, new_content, old_abs, new_abs) ==
  new_content # content \/ old_abs # new_abs

\* The entry line 51 stores for one file whose text is content, as a list of
\* zero or one entries.
update_of(old_abs, content, mv) ==
  LET new_abs     == new_path_of(old_abs, mv)
      new_content == rewrite(content, old_abs, new_abs, mv)
  IN  IF records_update(content, new_content, old_abs, new_abs)
      THEN << [old |-> old_abs, new |-> new_abs, content |-> new_content] >>
      ELSE << >>

\* The mapping visited without sorting, here in descending order.
RECURSIVE reversed(_)
reversed(q) == IF q = EMPTY THEN EMPTY ELSE Append(reversed(Tail(q)), q[1])

move_order_unsorted(mv) == reversed(sorted(DOMAIN mv))

\* The order line 55 visits the mapping in.
move_order(mv) == sorted(DOMAIN mv)

\* Whether os.makedirs(d, exist_ok=True) succeeds (line 57): neither d nor a
\* directory above it is a file.
makedirs_ok(disk, ds, d) == ancestors_or_self(d) \cap DOMAIN disk = {}

\* The directories after os.makedirs(d, exist_ok=True).
makedirs(ds, d) == ds \cup ancestors_or_self(d)

\* p lies below the directory d
under(p, d) == p # d /\ startswith(p, IF endswith(d, <<SEP>>) THEN d ELSE d \o <<SEP>>)

\* Where `git mv old new` puts old: into new when new is a directory.
git_mv_target(ds, old, new) == IF new \in ds THEN join(new, basename(old)) ELSE new

\* Whether `git mv old new` succeeds on this disk (line 58): the origin is a file,
\* or a directory that holds files and is not moved into itself; nothing is at the
\* target and the directory of the target is there.
git_mv_ok(disk, ds, old, new) ==
  LET target == git_mv_target(ds, old, new)
  IN  /\ target \notin DOMAIN disk \cup ds
      /\ dirname(target) \in ds
      /\ \/ old \in DOMAIN disk
         \/ /\ old \in ds
            /\ \E p \in DOMAIN disk : under(p, old)
            /\ ~under(target, old)

\* The disk after `git mv old new`.
git_mv(disk, ds, old, new) ==
  LET target    == git_mv_target(ds, old, new)
      rename(p) == IF p = old THEN target
                   ELSE IF under(p, old) THEN target \o drop(p, Len(old))
                   ELSE p
  IN  [ files |-> [q \in { rename(p) : p \in DOMAIN disk } |->
                     disk[CHOOSE p \in DOMAIN disk : rename(p) = q]],
        dirs  |-> { rename(p) : p \in ds } ]

\* Whether open(path, 'w') can succeed (line 63): path is no directory and stands
\* in one.
open_ok(ds, path) == path \notin ds /\ dirname(path) \in ds

\* The files after open(path, 'w') and the storing of these bytes (lines 63-64).
write_file(disk, path, bytes) ==
  [p \in DOMAIN disk \cup {path} |-> IF p = path THEN bytes ELSE disk[p]]

\* The two counts of the summary line (line 68).
summary_counts(mv, upd) == <<Cardinality(DOMAIN mv), Len(upd)>>

repo_root == dirname(BASE)

\* Where the run stands once the loops that have nothing left are passed over:
\* the exit tests of the for statements of lines 37, 55 and 62.
RECURSIVE settle(_, _, _, _, _)
settle(p, i, nfiles, nmoves, nupdates) ==
  IF p = "read" /\ i > nfiles THEN settle("move", 1, nfiles, nmoves, nupdates)
  ELSE IF p = "move" /\ i > nmoves THEN settle("write", 1, nfiles, nmoves, nupdates)
  ELSE IF p = "write" /\ i > nupdates THEN <<"summary", 1>>
  ELSE <<p, i>>

goto(p, i, files, mv, upd) ==
  LET at == settle(p, i, Len(files), Cardinality(DOMAIN mv), Len(upd))
  IN  pc' = at[1] /\ idx' = at[2]

abort(e) == pc' = "failed" /\ err' = e

\* A parse error that is swallowed: the run goes on with an empty mapping.
MainFail_swallowed ==
  /\ pc = "main"
  /\ ~argv.ok
  /\ moves' = << >>
  /\ pc' = "walk"
  /\ UNCHANGED <<argv, fs, dirs, fs0, all_files, updates, idx, err, trace, stdout, probe>>

\* json.loads raises on the argument (line 71).
MainFail ==
  /\ pc = "main"
  /\ ~argv.ok
  /\ abort("parse")
  /\ UNCHANGED <<argv, fs, dirs, fs0, moves, all_files, updates, idx, trace, stdout, probe>>

\* Lines 71-73 and 24-26: the mapping is parsed, joined to BASE and normalized.
Main ==
  /\ pc = "main"
  /\ argv.ok
  /\ moves' = normalize_moves(argv.json)
  /\ pc' = "walk"
  /\ UNCHANGED <<argv, fs, dirs, fs0, all_files, updates, idx, err, trace, stdout, probe>>

\* Lines 29-33: the walk lists the source files, in an order of its own.
Walk ==
  /\ pc = "walk"
  /\ all_files' \in orders(discovered(fs))
  /\ goto("read", 1, all_files', moves, updates)
  /\ UNCHANGED <<argv, fs, dirs, fs0, moves, updates, err, trace, stdout, probe>>

\* Lines 37-51 for one file.
ReadFile ==
  /\ pc = "read"
  /\ LET old_abs == all_files[idx]
     IN  /\ old_abs \in DOMAIN fs
         /\ updates' = updates \o update_of(old_abs, universal_newlines(fs[old_abs]), moves)
         /\ trace' = Append(trace, <<"read", old_abs>>)
  /\ goto("read", idx + 1, all_files, moves, updates')
  /\ UNCHANGED <<argv, fs, dirs, fs0, moves, all_files, err, stdout, probe>>

\* open or read raises (lines 39-40).
ReadFail ==
  /\ pc = "read"
  /\ abort("read")
  /\ UNCHANGED <<argv, fs, dirs, fs0, moves, all_files, updates, idx, trace, stdout, probe>>

\* Lines 55-59 for one entry, makedirs and git mv succeeding.
MoveFile ==
  /\ pc = "move"
  /\ LET old_abs == move_order(moves)[idx]
         new_abs == moves[old_abs]
         made    == makedirs(dirs, dirname(new_abs))
         after   == git_mv(fs, made, old_abs, new_abs)
     IN  /\ makedirs_ok(fs, dirs, dirname(new_abs))
         /\ git_mv_ok(fs, made, old_abs, new_abs)
         /\ fs' = after.files
         /\ dirs' = after.dirs
         /\ trace' = Append(trace, <<"mv", old_abs, new_abs,
                                     git_mv_target(made, old_abs, new_abs)>>)
         /\ stdout' = Append(stdout, <<"git mv", relpath(old_abs, repo_root),
                                       relpath(new_abs, repo_root)>>)
  /\ goto("move", idx + 1, all_files, moves, updates)
  /\ UNCHANGED <<argv, fs0, moves, all_files, updates, err, probe>>

\* Line 57 for one entry, makedirs raising: the directories it made before it
\* raised stay.
MakedirsFail ==
  /\ pc = "move"
  /\ LET old_abs == move_order(moves)[idx]
         new_abs == moves[old_abs]
         chain   == ancestors_or_self(dirname(new_abs))
     IN  /\ dirs' \in { dirs } \cup { makedirs(dirs, a) : a \in { c \in chain \ {dirname(new_abs)} :
                                                              makedirs_ok(fs, dirs, c) } }
         /\ trace' = Append(trace, <<"mv failed", old_abs, new_abs, old_abs>>)
  /\ abort("move")
  /\ UNCHANGED <<argv, fs, fs0, moves, all_files, updates, idx, stdout, probe>>

\* Line 58 for one entry, git mv failing after makedirs: check=True raises.  git
\* fails before it renames anything, or after the rename, when it cannot store
\* its index.
MoveFail ==
  /\ pc = "move"
  /\ LET old_abs == move_order(moves)[idx]
         new_abs == moves[old_abs]
         made    == makedirs(dirs, dirname(new_abs))
         after   == git_mv(fs, made, old_abs, new_abs)
     IN  /\ makedirs_ok(fs, dirs, dirname(new_abs))
         /\ \/ /\ fs' = fs
               /\ dirs' = made
               /\ trace' = Append(trace, <<"mv failed", old_abs, new_abs, old_abs>>)
            \/ /\ git_mv_ok(fs, made, old_abs, new_abs)
               /\ fs' = after.files
               /\ dirs' = after.dirs
               /\ trace' = Append(trace, <<"mv failed", old_abs, new_abs,
                                           git_mv_target(made, old_abs, new_abs)>>)
  /\ abort("move")
  /\ UNCHANGED <<argv, fs0, moves, all_files, updates, idx, stdout, probe>>

\* Lines 62-66 for one entry.
WriteFile ==
  /\ pc = "write"
  /\ LET u == updates[idx]
     IN  /\ open_ok(dirs, u.new)
         /\ fs' = write_file(fs, u.new, written_bytes(u.content))
         /\ trace' = Append(trace, <<"write", u.new>>)
         /\ stdout' = IF u.old = u.new
                      THEN Append(stdout, <<"updated imports in", relpath(u.new, repo_root)>>)
                      ELSE stdout
  /\ goto("write", idx + 1, all_files, moves, updates)
  /\ UNCHANGED <<argv, dirs, fs0, moves, all_files, updates, err, probe>>

\* open raises (line 63): the path is a directory, or may not be written.
OpenFail ==
  /\ pc = "write"
  /\ abort("write")
  /\ UNCHANGED <<argv, fs, dirs, fs0, moves, all_files, updates, idx, trace, stdout, probe>>

\* open has truncated the file and the storing of the text raises (lines 63-64,
\* as the with block flushes): the file holds what was stored before the failure,
\* nothing or the first bytes.
WriteFail ==
  /\ pc = "write"
  /\ LET u     == updates[idx]
         bytes == written_bytes(u.content)
     IN  /\ open_ok(dirs, u.new)
         /\ \E n \in { k \in StoredBeforeFailure : k < Len(bytes) } :
              fs' = write_file(fs, u.new, take(bytes, n))
         /\ trace' = Append(trace, <<"write failed", u.new>>)
  /\ abort("write")
  /\ UNCHANGED <<argv, dirs, fs0, moves, all_files, updates, idx, stdout, probe>>

\* Line 68.
Summary ==
  /\ pc = "summary"
  /\ stdout' = Append(stdout, <<"summary">> \o summary_counts(moves, updates))
  /\ pc' = "done"
  /\ UNCHANGED <<argv, fs, dirs, fs0, moves, all_files, updates, idx, err, trace, probe>>

Next ==
  \/ MainFail
  \/ Main
  \/ Walk
  \/ ReadFile
  \/ ReadFail
  \/ MoveFile
  \/ MakedirsFail
  \/ MoveFail
  \/ WriteFile
  \/ OpenFail
  \/ WriteFail
  \/ Summary

Spec == Init /\ [][Next]_vars

(***************************************************************************)
(* The path functions on their own                                         *)
(***************************************************************************)
InitFn ==
  /\ argv = [ok |-> FALSE, json |-> << >>]
  /\ fs = << >>
  /\ dirs = {}
  /\ fs0 = << >>
  /\ moves = << >>
  /\ all_files = << >>
  /\ updates = << >>
  /\ pc = "probe"
  /\ idx = 1
  /\ err = ""
  /\ trace = << >>
  /\ stdout = << >>
  /\ probe \in { [from |-> f, to |-> t, rel |-> None, back |-> None] :
                   f \in ProbePaths, t \in ProbePaths }

\* make_relative(from, to)
Relativize ==
  /\ pc = "probe"
  /\ probe.rel = None
  /\ probe' = [probe EXCEPT !.rel = make_relative(probe.from, probe.to)]
  /\ UNCHANGED <<argv, fs, dirs, fs0, moves, all_files, updates, pc, idx, err, trace, stdout>>

\* resolve_import(from, make_relative(from, to))
Resolve ==
  /\ pc = "probe"
  /\ probe.rel # None
  /\ probe.back = None
  /\ probe' = [probe EXCEPT !.back = resolve_import(probe.from, probe.rel)]
  /\ UNCHANGED <<argv, fs, dirs, fs0, moves, all_files, updates, pc, idx, err, trace, stdout>>

NextFn ==
  \/ Relativize
  \/ Resolve

SpecFn == InitFn /\ [][NextFn]_vars

(***************************************************************************)
(* Properties of the path functions (checked under SpecFn)                 *)
(***************************************************************************)
has_char(s, c) == \E i \in 1..Len(s) : s[i] = c

\* Whether `from "<spec>"` is, as a whole, a match of the import pattern.
import_matches(spec) == match_end(Statement(spec), 1) = Len(Statement(spec))

relative_marker(rel) == startswith(rel, <<DOT, SEP>>) \/ startswith(rel, <<DOT, DOT, SEP>>)

\* C2, as stated: for every referencing location and every destination,
\* resolve_import(from, make_relative(from, destination)) is the destination.
C2_RoundTrip ==
  probe.back # None => probe.back = probe.to

\* C2, amended: the round trip holds for every destination that does not end in
\* the compiled suffix `.js` and holds no backslash.
C2_RoundTripOfSourcePaths ==
  (probe.back # None /\ ~endswith(probe.to, JS) /\ ~has_char(probe.to, BACKSLASH))
    => probe.back = probe.to

\* C2's case: a destination in the parent directory of the referencing file, and
\* one whose name does not end in the source suffix, both reproduced.
C2_Witness ==
  /\ probe.from = BASE \o <<SEP, "d", SEP, "a">> \o TS
  /\ probe.to \in { FileB, BASE \o <<SEP, "d", SEP, "a", ".", "t", "x", "t">> }
  /\ probe.rel \in { <<".", ".", "/", "b">> \o JS, <<".", "/", "a", ".", "t", "x", "t">> }
  /\ probe.back = probe.to

\* C9: every string make_relative returns begins with `./` or `../`, and for a
\* target with the source suffix it is again an import the pattern matches.
C9_RelativeMarker ==
  probe.rel # None =>
    /\ relative_marker(probe.rel)
    /\ endswith(probe.to, TS) => import_matches(probe.rel)

(***************************************************************************)
(* Properties of the run (checked under Spec)                              *)
(***************************************************************************)
\* The operations of the trace that are of one of these kinds, in order.
ops(kinds) == SelectSeq(trace, LAMBDA e : e[1] \in kinds)

\* The files after renaming old to target; a file left where it is stays.
renamed(disk, old, target) ==
  IF old = target THEN disk
  ELSE [p \in (DOMAIN disk \ {old}) \cup {target} |-> IF p = target THEN disk[old] ELSE disk[p]]

\* The files the renames of a list of operations make of a tree: a move puts its
\* origin where the operation says it is afterwards.
RECURSIVE replay(_, _)
replay(disk, es) ==
  IF es = EMPTY THEN disk
  ELSE replay(IF es[1][1] \in {"mv", "mv failed"} THEN renamed(disk, es[1][2], es[1][4])
              ELSE disk,
              Tail(es))

\* The text the run read from a file.
text0(f) == universal_newlines(fs0[f])

\* The import references of a file's original content, in order.
specs(f) == LET ms == matches(text0(f)) IN [k \in 1..Len(ms) |-> group1(text0(f), ms[k])]

matched(f) == DOMAIN specs(f)

\* The entry the run recorded for a file, as a set of zero or one entries.
recorded(f) == { updates[i] : i \in { j \in 1..Len(updates) : updates[j].old = f } }

\* The content the run hands to the destination of f: the recorded new content,
\* or, with no entry recorded, the content the file keeps.
content_for(f) ==
  IF recorded(f) = {} THEN text0(f) ELSE (CHOOSE u \in recorded(f) : TRUE).content

\* The text between the quotes of the statements that stand, in a rewritten text,
\* in the places of the matches ms of the original, from the k-th on; the
\* rewritten text is ahead of the original by shift characters.
RECURSIVE in_place(_, _, _, _)
in_place(ms, k, rewritten, shift) ==
  IF k > Len(ms) THEN EMPTY
  ELSE LET from == ms[k][1] + shift + Len(FROM)
           q    == find1(rewritten, QUOTE, from)
       IN  IF from > Len(rewritten) \/ q = 0 THEN << None >>
           ELSE << SubSeq(rewritten, from, q - 1) >> \o in_place(ms, k + 1, rewritten, q - ms[k][2])

\* The import texts that stand in the content for f in the places of f's imports.
stands_in(f) == in_place(matches(text0(f)), 1, content_for(f), 0)

\* The content for f is f's text with nothing but the import texts replaced.
only_imports_replaced(f) ==
  LET ms == matches(text0(f))
  IN  /\ Len(stands_in(f)) = Len(ms)
      /\ content_for(f) = spliced(text0(f), ms,
                                  [k \in 1..Len(ms) |-> Statement(stands_in(f)[k])], 1, 1)

SubA == BASE \o <<SEP, "d", SEP, "a">> \o TS

ImportA == <<".", "/", "a">> \o JS

ImportC == <<".", "/", "c">> \o JS

\* The import text in the place of reference i of file f resolves, from f's
\* destination, to the destination of the file the reference named.
resolves_after(f, i) ==
  resolve_import(new_path_of(f, moves), stands_in(f)[i])
    = new_path_of(resolve_import(f, specs(f)[i]), moves)

\* Every file with an entry had that entry's content written at its destination.
flushed ==
  \A i \in 1..Len(updates) : ops({"write"})[i] = <<"write", updates[i].new>>

\* C1, as stated: after a completed run every matched import of every discovered
\* file, as written at the file's destination, resolves from there to the
\* destination of its target.
C1_ImportsResolve ==
  pc = "done" =>
    /\ flushed
    /\ \A k \in 1..Len(all_files) :
         /\ only_imports_replaced(all_files[k])
         /\ \A i \in matched(all_files[k]) : resolves_after(all_files[k], i)

\* C1, amended: the same, for the imports whose target's destination does not end in
\* `.js` and holds no backslash; moving a.ts to d/a.ts turns c.ts's "./a.js" into
\* "./d/a.js" and a.ts's "./c.js" into "../c.js".
C1_ImportsOfSourceTargetsResolve ==
  pc = "done" =>
    /\ flushed
    /\ \A k \in 1..Len(all_files) :
         /\ only_imports_replaced(all_files[k])
         /\ \A i \in matched(all_files[k]) :
              LET f == all_files[k]
                  d == new_path_of(resolve_import(f, specs(f)[i]), moves)
              IN  (~endswith(d, JS) /\ ~has_char(d, BACKSLASH)) => resolves_after(f, i)
    /\ (moves = (FileA :> SubA) /\ fs0[FileC] = Statement(ImportA) \o LF)
         => fs[FileC] = Statement(<<".", "/", "d", "/", "a">> \o JS) \o LF
    /\ (moves = (FileA :> SubA) /\ fs0[FileA] = Statement(ImportC) \o LF)
         => fs[SubA] = Statement(<<".", ".", "/", "c">> \o JS) \o LF

\* C1's cases: the importing file moved, and only the target moved.
C1_Witness ==
  /\ pc = "done"
  /\ moves = (FileA :> SubA)
  /\ \/ /\ fs0[FileA] = Statement(ImportC) \o LF
        /\ fs[SubA] = Statement(<<".", ".", "/", "c">> \o JS) \o LF
     \/ /\ fs0[FileC] = Statement(ImportA) \o LF
        /\ fs[FileC] = Statement(<<".", "/", "d", "/", "a">> \o JS) \o LF

\* The bytes the run leaves for a file: those it writes for it, or those it keeps.
result_bytes(f) ==
  IF recorded(f) = {} THEN fs0[f] ELSE written_bytes(content_for(f))

\* C3: a file that is not moved and imports only files that are not moved gets no
\* entry and keeps its bytes; with an empty mapping nothing is recorded, and
\* rewriting the result again changes nothing.
C3_NoSpuriousEdits ==
  pc \in {"move", "write", "summary", "done"} =>
    /\ \A k \in 1..Len(all_files) :
         LET f == all_files[k]
         IN  ( /\ f \notin DOMAIN moves
               /\ \A i \in matched(f) : resolve_import(f, specs(f)[i]) \notin DOMAIN moves )
               => /\ recorded(f) = {}
                  /\ content_for(f) = text0(f)
                  /\ pc = "done" => (f \in DOMAIN fs /\ fs[f] = fs0[f])
    /\ DOMAIN moves = {} => updates = << >>
    /\ DOMAIN moves = {} =>
         \A k \in 1..Len(all_files) :
           update_of(all_files[k], universal_newlines(result_bytes(all_files[k])), moves) = << >>

\* C4: the moves are attempted in ascending order of origin; a failing move is the
\* last one attempted, exactly the entries before it in that order have been
\* moved and are where their moves put them, the entries after it are untouched,
\* and every file has the content it had (nothing is rolled back).
C4_MoveFailureAborts ==
  LET mvs == ops({"mv", "mv failed"})
      n   == Len(mvs)
  IN  /\ \A i \in 1..(n - 1) : mvs[i][1] = "mv" /\ strless(mvs[i][2], mvs[i + 1][2])
      /\ \A i \in 1..n : mvs[i][2] \in DOMAIN moves /\ mvs[i][3] = moves[mvs[i][2]]
      /\ err = "move" =>
           /\ mvs[n][1] = "mv failed"
           /\ { mvs[i][2] : i \in 1..(n - 1) }
                = { k \in DOMAIN moves : strless(k, mvs[n][2]) }
           /\ fs = replay(fs0, mvs)
           /\ \A i \in 1..(n - 1) :
                \/ mvs[i][4] \in DOMAIN fs
                \/ \E j \in (i + 1)..n : mvs[j][2] = mvs[i][4]
           /\ \A k \in DOMAIN moves :
                strless(k, mvs[n][2]) => (k \notin DOMAIN fs \/ k \in { mvs[i][4] : i \in 1..n })
           /\ \A k \in DOMAIN moves :
                strless(mvs[n][2], k)
                  => (k \in DOMAIN fs <=> (k \in DOMAIN fs0 \/ k \in { mvs[i][4] : i \in 1..n }))
           /\ ops({"write", "write failed"}) = << >>

\* C4's case: the second of three moves fails after the first was applied.
C4_Witness ==
  /\ err = "move"
  /\ Cardinality(DOMAIN moves) = 3
  /\ idx = 2
  /\ fs # fs0
  /\ Len(ops({"mv"})) = 1

\* C5: a discovered file that is moved and holds no matching import is, when the
\* run is done, at its destination with its original content.
C5_MovedFileKeepsContent ==
  pc = "done" =>
    \A k \in 1..Len(all_files) :
      LET f == all_files[k]
      IN  (f \in DOMAIN moves /\ matched(f) = {})
            => (moves[f] \in DOMAIN fs /\ fs[moves[f]] = fs0[f])

\* C6: the summary line reports the number of files moved and the number of
\* discovered files whose import text the rewrite changed.
C6_SummaryCounts ==
  pc = "done" =>
    stdout[Len(stdout)]
      = << "summary",
           Len(ops({"mv"})),
           Cardinality({ k \in 1..Len(all_files) :
                           stands_in(all_files[k]) # specs(all_files[k]) }) >>

\* C7: with an argument json.loads rejects, the run fails with the parse error
\* before any phase: nothing is read, moved, written or printed.
C7_MalformedTouchesNothing ==
  ~argv.ok =>
    /\ pc \in {"main", "failed"}
    /\ pc = "failed" => err = "parse"
    /\ fs = fs0
    /\ dirs = dirs_of(fs0)
    /\ trace = << >>
    /\ stdout = << >>
    /\ all_files = << >>

\* C7's case: the run has failed on a malformed argument.
C7_Witness ==
  ~argv.ok /\ pc = "failed" /\ err = "parse" /\ fs = fs0 /\ DOMAIN fs0 # {}

\* The paths the run hands to new_path_of: the discovered files and the targets
\* their imports resolve to.
looked_up ==
  { all_files[k] : k \in 1..Len(all_files) } \cup
  UNION { { resolve_import(all_files[k], specs(all_files[k])[i]) : i \in matched(all_files[k]) } :
            k \in 1..Len(all_files) }

\* C8: new_path_of returns a path that is not a key of the mapping unchanged, so a
\* discovered file that is not a key has its origin as destination and is written
\* nowhere else.
C8_IdentityDefault ==
  /\ (pc \in {"move", "summary"} \/ (pc = "write" /\ idx = 1)) =>
       \A p \in looked_up \ DOMAIN moves : new_path_of(p, moves) = p
  /\ \A i \in 1..Len(updates) :
       updates[i].old \notin DOMAIN moves => updates[i].new = updates[i].old
  /\ \A i \in 1..Len(ops({"write", "write failed"})) :
       updates[i].old \notin DOMAIN moves
         => ops({"write", "write failed"})[i][2] = updates[i].old

\* C8's case: beside a moved file, a file that is not a key was rewritten in place.
C8_Witness ==
  /\ pc = "done"
  /\ DOMAIN moves # {}
  /\ \E i \in 1..Len(updates) :
       /\ updates[i].old \notin DOMAIN moves
       /\ updates[i].old \in looked_up
       /\ <<"write", updates[i].old>> \in { trace[j] : j \in 1..Len(trace) }

\* C10: every discovered file is read once, every read comes before the first
\* move, every move before the first write, no path is written twice; a failed read
\* leaves the tree as it was and a failed move leaves every file its content.
C10_PhasesAndLifecycle ==
  LET kind(i) == trace[i][1]
      reads   == ops({"read"})
      writes  == ops({"write", "write failed"})
      moving  == {"mv", "mv failed"}
  IN  /\ \A i, j \in 1..Len(reads) : reads[i] = reads[j] => i = j
      /\ pc \in {"move", "write", "summary", "done"} =>
           { reads[i][2] : i \in 1..Len(reads) } = discovered(fs0)
      /\ \A i, j \in 1..Len(trace) :
           (i < j) => /\ ~(kind(i) \in moving /\ kind(j) = "read")
                      /\ ~(kind(i) \in {"write", "write failed"} /\ kind(j) \in moving \cup {"read"})
      /\ \A i, j \in 1..Len(writes) : writes[i][2] = writes[j][2] => i = j
      /\ err = "read" => fs = fs0 /\ dirs = dirs_of(fs0)
      /\ (pc = "move" \/ err = "move") => fs = replay(fs0, trace)

====
